---------------------------- MODULE Spec2Model ----------------------------
(***************************************************************************)
(* Model of src/slic3r/GUI/UserAccountCommunication.cpp: the session       *)
(* orchestrator of the Prusa account login (worker thread, wakeup/stop     *)
(* condition, refresh and polling timers, redirect-code extraction).       *)
(*                                                                         *)
(* Threads: the worker started by init_session_thread, the GUI thread      *)
(* "main" (API calls, timer callbacks, window events, the destructor) and  *)
(* one more calling thread "caller" (API calls only).  Every statement     *)
(* that touches shared state outside a lock is a step of its own, so the   *)
(* unlocked reads and writes of the worker interleave with the other       *)
(* threads.                                                                *)
(***************************************************************************)
EXTENDS Integers, Sequences, FiniteSets, TLC

VARIABLES
    pc,                  \* thread -> [op, at, arg]: the call in progress and its position
    m_thread_stop,       \* bool m_thread_stop
    m_thread_wakeup,     \* bool m_thread_wakeup
    m_window_is_active,  \* bool m_window_is_active
    m_thread_stop_mutex, \* owner of std::mutex m_thread_stop_mutex, or NoThread
    m_session_mutex,     \* owner of std::mutex m_session_mutex, or NoThread
    observed,            \* what the worker read in this loop iteration (402, 406)
    m_access_token,      \* UserAccountSession: access token
    m_refresh_token,     \* UserAccountSession: refresh token
    m_shared_session_key,    \* UserAccountSession: shared session key
    m_next_token_timeout,    \* UserAccountSession: expiry time of the access token
    m_action_queue,      \* UserAccountSession: the pending actions, oldest first
    m_code_verifier,     \* std::string m_code_verifier
    m_username,          \* std::string m_username
    m_remember_session,  \* bool m_remember_session
    secret_store,        \* the secret store: [ok, saved], saved the value last saved under "tokens"
    events,              \* events queued to m_evt_handler, oldest first
    m_token_timer,       \* pending one-shot firings of m_token_timer (their delays)
    m_polling_timer,     \* m_polling_timer is running
    init_with_code_args, \* the <<code, verifier>> last handed to init_with_code
    url_message,         \* the payload last handed to on_login_code_recieved
    refresh_arg,         \* the seconds last handed to set_refresh_time
    wakeup_unserved,     \* a wakeup_session_thread call no drain has started after
    ops                  \* number of calls and callbacks started so far

\* groups of variables, for the frame conditions
flags   == <<m_thread_stop, m_thread_wakeup, m_window_is_active>>
mutexes == <<m_thread_stop_mutex, m_session_mutex>>
tokens  == <<m_access_token, m_refresh_token, m_shared_session_key, m_next_token_timeout>>
account == <<m_username, m_remember_session, secret_store>>
login   == <<m_code_verifier, init_with_code_args, url_message>>
timers  == <<m_token_timer, m_polling_timer, refresh_arg>>

vars == <<pc, flags, mutexes, observed, tokens, m_action_queue, account, login,
          events, timers, wakeup_unserved, ops>>

----------------------------------------------------------------------------
(* Bounds of the model. *)

\* calls and callbacks the GUI thread and the caller thread start in one run
MaxOps == 2
\* tokens (the marker or one character) a redirect payload is built from
MaxTokens == 5

----------------------------------------------------------------------------
(* get_code_from_message (lines 51-63).  Characters are their ASCII codes. *)

\* "code="
CodeMarker == <<99, 111, 100, 101, 61>>

\* std::string::npos is SIZE_MAX; size_t arithmetic is modulo 2^64 and a
\* value is written by its representative in -2^63 .. 2^63-1, so SIZE_MAX is
\* -1 and npos + 5 is 4.
npos == -1

\* line 57: (c >= 'A' && c <= 'Z') || (c >= 'a' && c <= 'z') || (c >= '0' && c <= '9')
IsCodeChar(c) ==
    \/ (c >= 65 /\ c <= 90)
    \/ (c >= 97 /\ c <= 122)
    \/ (c >= 48 /\ c <= 57)

\* 0-based positions at which `what` occurs in s
Occurrences(s, what) ==
    { p \in 0 .. (Len(s) - Len(what)) : SubSeq(s, p + 1, p + Len(what)) = what }

\* the first occurrence instead of the last (std::string::find)
find(s, what) ==
    LET occ == Occurrences(s, what)
    IN  IF occ = {} THEN npos ELSE CHOOSE p \in occ : \A q \in occ : p <= q

\* std::string::rfind: the last occurrence, npos when there is none (line 53)
rfind(s, what) ==
    LET occ == Occurrences(s, what)
    IN  IF occ = {} THEN npos ELSE CHOOSE p \in occ : \A q \in occ : q <= p

\* the loop of lines 55-61, from index i (0-based) with `out` read so far
RECURSIVE CodeLoop(_, _, _)
CodeLoop(s, i, out) ==
    IF i < Len(s)
    THEN IF IsCodeChar(s[i + 1])
         THEN CodeLoop(s, i + 1, Append(out, s[i + 1]))
         ELSE out
    ELSE out

get_code_from_message(s) ==
    LET pos == rfind(s, CodeMarker)
    IN  CodeLoop(s, pos + 5, <<>>)

----------------------------------------------------------------------------
(* set_refresh_time (lines 435-441): int arithmetic of 32 bits.  A value    *)
(* that may leave the 32-bit range is kept as limbs <<hi, lo>> standing for *)
(* hi * 65536 + lo with lo in 0 .. 65535.                                   *)

\* the safety margin subtracted from the token lifetime, in ms (line 439)
RefreshMarginMs == 66666
\* the least delay of the refresh timer, in ms (line 439)
RefreshFloorMs == 60000

Limbs(x) == <<x \div 65536, x % 65536>>

\* seconds * 1000 - 66666 in exact arithmetic, as limbs
ExactRefreshLimbs(seconds) ==
    LET lo1000 == (seconds % 65536) * 1000
        hi1000 == (seconds \div 65536) * 1000 + (lo1000 \div 65536)
        lo     == lo1000 % 65536
        mhi    == RefreshMarginMs \div 65536
        mlo    == RefreshMarginMs % 65536
    IN  IF lo >= mlo THEN <<hi1000 - mhi, lo - mlo>>
                     ELSE <<hi1000 - mhi - 1, lo + 65536 - mlo>>

\* the limbs fit a 32-bit int
FitsInt32(l) == l[1] >= -32768 /\ l[1] <= 32767

\* the 32-bit two's complement value the limbs wrap to
WrapInt32(l) == (((l[1] + 32768) % 65536) - 32768) * 65536 + l[2]

\* seconds * 1000 alone leaves the 32-bit range
MulOverflows(seconds) ==
    LET lo1000 == (seconds % 65536) * 1000
    IN  ~FitsInt32(<<(seconds \div 65536) * 1000 + (lo1000 \div 65536), lo1000 % 65536>>)

\* signed overflow in seconds * 1000 - 66666 (undefined behaviour)
RefreshOverflows(seconds) ==
    MulOverflows(seconds) \/ ~FitsInt32(ExactRefreshLimbs(seconds))

Max(a, b) == IF a >= b THEN a ELSE b

\* The values `miliseconds` can take (line 439).  Without overflow there is
\* one: std::max of the difference and 60000.  With signed overflow the
\* build decides: the wrapped difference clamped by std::max, or, when the
\* comparison was simplified under the no-overflow assumption, the wrapped
\* difference itself.
RefreshDelays(seconds) ==
    LET wrapped == WrapInt32(ExactRefreshLimbs(seconds))
    IN  IF RefreshOverflows(seconds)
        THEN {Max(wrapped, RefreshFloorMs), wrapped}
        ELSE {Max(wrapped, RefreshFloorMs)}

----------------------------------------------------------------------------
(* Threads, positions and the Session collaborator. *)

Worker == "worker"
Main == "main"
Caller == "caller"
NoThread == "none"
CallerThreads == {Main, Caller}

\* not inside any call
Idle == [op |-> "idle", at |-> "idle", arg |-> <<>>]

At(t, op, at) == pc[t].op = op /\ pc[t].at = at
Goto(t, at) == pc' = [pc EXCEPT ![t].at = at]
Return(t) == pc' = [pc EXCEPT ![t] = Idle]

\* the object is alive: the destructor has not returned
Alive == pc[Main].at # "destroyed"

\* a new call or callback may start on thread t
MayStart(t) == pc[t].at = "idle" /\ Alive

\* fewer than n calls and callbacks have been started
Budget(n) == ops < n

\* an optional value: none, or the value x
None == <<>>
Some(x) == <<x>>

\* nothing the worker has read yet in this iteration
Unread == [stop |-> None, active |-> None, wakeup |-> None]

\* UserAccountSession::is_initialized: the Session holds a token
is_initialized == m_access_token # "" \/ m_refresh_token # ""

\* a Pending Action: its kind and its string payload (callbacks are nullptr)
Action(kind, payload) == [kind |-> kind, payload |-> payload]

\* UserAccountSession::enqueue_action / enqueue_refresh / enqueue_test_with_refresh:
\* the queue with the action appended
enqueue_action(queue, kind, payload) == Append(queue, Action(kind, payload))
enqueue_refresh_action(queue) == Append(queue, Action("REFRESH", ""))
enqueue_test_with_refresh(queue) == Append(queue, Action("TEST_WITH_REFRESH", ""))

\* the six enqueue_* methods (lines 316-390)
EnqueueMethods ==
    {"enqueue_connect_printer_models_action", "enqueue_connect_status_action",
     "enqueue_test_connection", "enqueue_avatar_action",
     "enqueue_printer_data_action", "enqueue_refresh"}

\* the arguments the model passes to a method
ArgsOf(method) ==
    CASE method = "enqueue_avatar_action" -> {"url"}
      [] method = "enqueue_printer_data_action" -> {"uuid"}
      [] OTHER -> {""}

\* the Session call each enqueue method makes once its guard has passed
\* (lines 324, 337, 349, 362, 375, 387)
SessionEnqueue(queue, method, arg) ==
    CASE method = "enqueue_connect_printer_models_action" ->
            enqueue_action(queue, "CONNECT_PRINTER_MODELS", "")
      [] method = "enqueue_connect_status_action" ->
            enqueue_action(queue, "CONNECT_STATUS", "")
      [] method = "enqueue_test_connection" -> enqueue_test_with_refresh(queue)
      [] method = "enqueue_avatar_action" -> enqueue_action(queue, "AVATAR", arg)
      [] method = "enqueue_printer_data_action" ->
            enqueue_action(queue, "CONNECT_DATA_FROM_UUID", arg)
      [] method \in {"enqueue_refresh", "on_token_timer"} -> enqueue_refresh_action(queue)

\* the verifiers CodeChalengeGenerator::generate_verifier may draw
Verifiers == {"verifier1", "verifier2"}
\* CodeChalengeGenerator::generate_chalenge: base64url(sha256(verifier))
generate_chalenge(verifier) == <<"S256", verifier>>

OpenPrusaAuthEvent(challenge) == [type |-> "EVT_OPEN_PRUSAAUTH", challenge |-> challenge]
LoggedOutEvent == [type |-> "EVT_UA_LOGGEDOUT", challenge |-> <<>>]

\* is_secret_store_ok (lines 65-78): the platform has a secret store
is_secret_store_ok == secret_store.ok

\* the expiry time a token acquisition sets
TokenExpiry == 1

----------------------------------------------------------------------------
(* The constructor (lines 135-180): the state after construction. *)

\* remaining time as a 64-bit value <<hi, lo>>: hi * 2^32 + (lo mod 2^32),
\* lo the 32-bit pattern (int)remain_time keeps
RemainPositive(remain) == remain[1] > 0 \/ (remain[1] = 0 /\ remain[2] # 0)
NarrowToInt(remain) == remain[2]

\* the token records the secret store may hold at startup
StoredTokens == {[access |-> "", refresh |-> ""], [access |-> "at", refresh |-> "rt"]}

Constructed(store_ok, stored, remain, delay) ==
    LET access_token == IF RemainPositive(remain) THEN stored.access ELSE ""
        has_token == stored.refresh # ""
    IN  /\ pc = [t \in {Worker, Main, Caller} |->
                    IF t = Worker THEN [op |-> "session_thread", at |-> "wait", arg |-> <<>>]
                    ELSE Idle]
        /\ m_thread_stop = FALSE
        /\ m_thread_wakeup = has_token
        /\ m_window_is_active = TRUE
        /\ m_thread_stop_mutex = NoThread
        /\ m_session_mutex = NoThread
        /\ observed = Unread
        /\ m_access_token = access_token
        /\ m_refresh_token = stored.refresh
        /\ m_shared_session_key = IF stored.refresh # "" THEN "key" ELSE ""
        /\ m_next_token_timeout = 0
        /\ m_action_queue = IF has_token THEN enqueue_test_with_refresh(<<>>) ELSE <<>>
        /\ m_code_verifier = ""
        /\ m_username = ""
        /\ m_remember_session = TRUE
        /\ secret_store = [ok |-> store_ok, saved |-> None]
        /\ events = <<>>
        /\ m_token_timer = IF RemainPositive(remain) THEN <<delay>> ELSE <<>>
        /\ m_polling_timer = TRUE
        /\ init_with_code_args = None
        /\ url_message = None
        /\ refresh_arg = IF RemainPositive(remain) THEN Some(NarrowToInt(remain)) ELSE None
        /\ wakeup_unserved = has_token
        /\ ops = 0

\* remaining times at startup: expired, and 1000 s to go
MainRemain == {<<-1, -5>>, <<0, 1000>>}

InitFrom(remains) ==
    \E store_ok \in BOOLEAN, stored \in StoredTokens, remain \in remains :
        /\ (~store_ok => (stored.refresh = "" /\ ~RemainPositive(remain)))
        /\ \E delay \in RefreshDelays(NarrowToInt(remain)) :
              Constructed(store_ok, stored, remain, delay)

Init == InitFrom(MainRemain)

----------------------------------------------------------------------------
(* The worker thread (the lambda of init_session_thread, lines 396-415). *)

WorkerAt(at) == At(Worker, "session_thread", at)

\* line 399, and the re-lock of wait_for after a notification: take
\* m_thread_stop_mutex before evaluating the predicate
wait_lock ==
    /\ (WorkerAt("wait") \/ WorkerAt("wake"))
    /\ m_thread_stop_mutex = NoThread
    /\ m_thread_stop_mutex' = Worker
    /\ observed' = IF WorkerAt("wait") THEN Unread ELSE observed
    /\ Goto(Worker, "wait_pred")
    /\ UNCHANGED <<flags, m_session_mutex, tokens, m_action_queue, account, login,
                   events, timers, wakeup_unserved, ops>>

\* line 400: the predicate m_thread_stop || m_thread_wakeup under the lock;
\* true ends the wait (the lock is released at line 401), false blocks on
\* the condition variable, which releases the lock
wait_pred ==
    /\ WorkerAt("wait_pred")
    /\ m_thread_stop_mutex' = NoThread
    /\ IF m_thread_stop \/ m_thread_wakeup
       THEN Goto(Worker, "check_stop")
       ELSE Goto(Worker, "blocked")
    /\ UNCHANGED <<flags, m_session_mutex, observed, tokens, m_action_queue, account,
                   login, events, timers, wakeup_unserved, ops>>

\* line 400: the 88888 s of wait_for have passed; wait_for re-locks and
\* returns whatever the predicate says, and line 401 releases the lock
wait_timeout ==
    /\ WorkerAt("blocked")
    /\ m_thread_stop_mutex = NoThread
    /\ Goto(Worker, "check_stop")
    /\ UNCHANGED <<flags, mutexes, observed, tokens, m_action_queue, account, login,
                   events, timers, wakeup_unserved, ops>>

\* a stop check that never leaves the loop
check_stop_ignored ==
    /\ WorkerAt("check_stop")
    /\ observed' = [observed EXCEPT !.stop = Some(m_thread_stop)]
    /\ Goto(Worker, "gate")
    /\ UNCHANGED <<flags, mutexes, tokens, m_action_queue, account, login,
                   events, timers, wakeup_unserved, ops>>

\* lines 402-404: if (m_thread_stop) break; read without the lock
check_stop ==
    /\ WorkerAt("check_stop")
    /\ observed' = [observed EXCEPT !.stop = Some(m_thread_stop)]
    /\ IF m_thread_stop THEN Goto(Worker, "done") ELSE Goto(Worker, "gate")
    /\ UNCHANGED <<flags, mutexes, tokens, m_action_queue, account, login,
                   events, timers, wakeup_unserved, ops>>

\* line 406, left operand: !m_window_is_active, read without the lock; an
\* active window skips the right operand and goes on to line 409
gate_window ==
    /\ WorkerAt("gate")
    /\ observed' = [observed EXCEPT !.active = Some(m_window_is_active)]
    /\ IF m_window_is_active THEN Goto(Worker, "clear") ELSE Goto(Worker, "gate_wakeup")
    /\ UNCHANGED <<flags, mutexes, tokens, m_action_queue, account, login,
                   events, timers, wakeup_unserved, ops>>

\* a gate that lets an inactive window without a wakeup through
gate_wakeup_open ==
    /\ WorkerAt("gate_wakeup")
    /\ observed' = [observed EXCEPT !.wakeup = Some(m_thread_wakeup)]
    /\ Goto(Worker, "clear")
    /\ UNCHANGED <<flags, mutexes, tokens, m_action_queue, account, login,
                   events, timers, wakeup_unserved, ops>>

\* lines 406-408, right operand: !m_thread_wakeup, read without the lock;
\* no wakeup: continue
gate_wakeup ==
    /\ WorkerAt("gate_wakeup")
    /\ observed' = [observed EXCEPT !.wakeup = Some(m_thread_wakeup)]
    /\ IF m_thread_wakeup THEN Goto(Worker, "clear") ELSE Goto(Worker, "wait")
    /\ UNCHANGED <<flags, mutexes, tokens, m_action_queue, account, login,
                   events, timers, wakeup_unserved, ops>>

\* line 409: m_thread_wakeup = false, written without the lock
clear_wakeup ==
    /\ WorkerAt("clear")
    /\ m_thread_wakeup' = FALSE
    /\ Goto(Worker, "lock_session")
    /\ UNCHANGED <<m_thread_stop, m_window_is_active, mutexes, observed, tokens,
                   m_action_queue, account, login, events, timers, wakeup_unserved, ops>>

\* a worker that starts the drain without taking m_session_mutex
worker_lock_session_skipped ==
    /\ WorkerAt("lock_session")
    /\ wakeup_unserved' = FALSE
    /\ Goto(Worker, "process")
    /\ UNCHANGED <<flags, mutexes, observed, tokens, m_action_queue,
                   account, login, events, timers, ops>>

\* line 411: lock m_session_mutex; the drain starts
worker_lock_session ==
    /\ WorkerAt("lock_session")
    /\ m_session_mutex = NoThread
    /\ m_session_mutex' = Worker
    /\ wakeup_unserved' = FALSE
    /\ Goto(Worker, "process")
    /\ UNCHANGED <<flags, m_thread_stop_mutex, observed, tokens, m_action_queue,
                   account, login, events, timers, ops>>

\* lines 412-413: m_session->process_action_queue() performs the oldest
\* pending action and takes it off the queue, one action after the other;
\* with the queue empty the call returns, the lock is released and the loop
\* starts over
process_action_queue ==
    /\ WorkerAt("process")
    /\ IF m_action_queue # <<>>
       THEN /\ m_action_queue' = Tail(m_action_queue)
            /\ UNCHANGED <<pc, m_session_mutex>>
       ELSE /\ m_session_mutex' = NoThread
            /\ Goto(Worker, "wait")
            /\ UNCHANGED m_action_queue
    /\ UNCHANGED <<flags, m_thread_stop_mutex, observed, tokens, account, login,
                   events, timers, wakeup_unserved, ops>>

\* the steps of the worker that its own code takes (the timeout is the clock's)
WorkerProgress ==
    \/ wait_lock
    \/ wait_pred
    \/ check_stop
    \/ gate_window
    \/ gate_wakeup
    \/ clear_wakeup
    \/ worker_lock_session
    \/ process_action_queue

----------------------------------------------------------------------------
(* wakeup_session_thread (lines 426-433). *)

\* line 429: lock m_thread_stop_mutex
wakeup_lock(t) ==
    /\ pc[t].at = "wakeup"
    /\ m_thread_stop_mutex = NoThread
    /\ m_thread_stop_mutex' = t
    /\ Goto(t, "wakeup_locked")
    /\ UNCHANGED <<flags, m_session_mutex, observed, tokens, m_action_queue, account,
                   login, events, timers, wakeup_unserved, ops>>

\* m_thread_stop_condition.notify_all() by thread t, which goes on to
\* `next`: a worker blocked in wait_for wakes and has to re-lock
notify_all(t, next) ==
    pc' = [pc EXCEPT ![t] = next,
                     ![Worker].at = IF WorkerAt("blocked") THEN "wake" ELSE @]

\* a wakeup that notifies without setting the flag
wakeup_set_forgotten(t) ==
    /\ pc[t].at = "wakeup_locked"
    /\ m_thread_stop_mutex' = NoThread
    /\ wakeup_unserved' = TRUE
    /\ notify_all(t, Idle)
    /\ UNCHANGED <<flags, m_session_mutex, observed, tokens, m_action_queue, account,
                   login, events, timers, ops>>

\* lines 430-432: m_thread_wakeup = true; unlock; notify_all; return
wakeup_set(t) ==
    /\ pc[t].at = "wakeup_locked"
    /\ m_thread_wakeup' = TRUE
    /\ m_thread_stop_mutex' = NoThread
    /\ wakeup_unserved' = TRUE
    /\ notify_all(t, Idle)
    /\ UNCHANGED <<m_thread_stop, m_window_is_active, m_session_mutex, observed,
                   tokens, m_action_queue, account, login, events, timers, ops>>

----------------------------------------------------------------------------
(* The enqueue_* methods (lines 316-390). *)

\* a call of an enqueue method has locked m_session_mutex
\* (lines 319, 332, 344, 357, 370, 382)
enqueue_call(t, method, arg) ==
    /\ MayStart(t)
    /\ m_session_mutex = NoThread
    /\ m_session_mutex' = t
    /\ pc' = [pc EXCEPT ![t] = [op |-> method, at |-> "session", arg |-> <<arg>>]]
    /\ ops' = ops + 1
    /\ UNCHANGED <<flags, m_thread_stop_mutex, observed, tokens, m_action_queue,
                   account, login, events, timers, wakeup_unserved>>

\* an enqueue method without the is_initialized guard
enqueue_locked_unguarded(t) ==
    /\ pc[t].op \in EnqueueMethods \cup {"on_token_timer"}
    /\ pc[t].at = "session"
    /\ m_session_mutex' = NoThread
    /\ m_action_queue' = SessionEnqueue(m_action_queue, pc[t].op, pc[t].arg[1])
    /\ Goto(t, "wakeup")
    /\ UNCHANGED <<flags, m_thread_stop_mutex, observed, tokens, account, login,
                   events, timers, wakeup_unserved, ops>>

\* an enqueue method that keeps the session lock while it requests a wakeup
enqueue_locked_holding(t) ==
    /\ pc[t].op \in EnqueueMethods \cup {"on_token_timer"}
    /\ pc[t].at = "session"
    /\ IF ~is_initialized
       THEN /\ Return(t)
            /\ m_session_mutex' = NoThread
            /\ UNCHANGED m_action_queue
       ELSE /\ m_action_queue' = SessionEnqueue(m_action_queue, pc[t].op, pc[t].arg[1])
            /\ Goto(t, "wakeup")
            /\ UNCHANGED m_session_mutex
    /\ UNCHANGED <<flags, m_thread_stop_mutex, observed, tokens, account, login,
                   events, timers, wakeup_unserved, ops>>

\* an enqueue method whose refresh variants skip the is_initialized guard
enqueue_locked_refreshing(t) ==
    /\ pc[t].op \in EnqueueMethods \cup {"on_token_timer"}
    /\ pc[t].at = "session"
    /\ m_session_mutex' = NoThread
    /\ IF ~is_initialized /\ pc[t].op \notin {"enqueue_refresh", "on_token_timer"}
       THEN /\ Return(t)
            /\ UNCHANGED m_action_queue
       ELSE /\ m_action_queue' = SessionEnqueue(m_action_queue, pc[t].op, pc[t].arg[1])
            /\ Goto(t, "wakeup")
    /\ UNCHANGED <<flags, m_thread_stop_mutex, observed, tokens, account, login,
                   events, timers, wakeup_unserved, ops>>

\* under the lock: return when the Session is not initialized, else enqueue;
\* the lock is released and, after an enqueue, wakeup_session_thread follows
enqueue_locked(t) ==
    /\ pc[t].op \in EnqueueMethods \cup {"on_token_timer"}
    /\ pc[t].at = "session"
    /\ m_session_mutex' = NoThread
    /\ IF ~is_initialized
       THEN /\ Return(t)
            /\ UNCHANGED m_action_queue
       ELSE /\ m_action_queue' = SessionEnqueue(m_action_queue, pc[t].op, pc[t].arg[1])
            /\ Goto(t, "wakeup")
    /\ UNCHANGED <<flags, m_thread_stop_mutex, observed, tokens, account, login,
                   events, timers, wakeup_unserved, ops>>

----------------------------------------------------------------------------
(* The destructor (lines 182-197). *)

\* m_thread.joinable(): the thread was started by the constructor and has
\* not been joined; it is joined by the destructor only
joinable == pc[Main].at # "destroyed"

\* a destructor that does not test joinable
destructor_call_joining ==
    /\ pc[Main].at \in {"idle", "destroyed"}
    /\ m_thread_stop_mutex = NoThread
    /\ m_thread_stop_mutex' = Main
    /\ m_token_timer' = <<>>
    /\ m_polling_timer' = FALSE
    /\ pc' = [pc EXCEPT ![Main] = [op |-> "~UserAccountCommunication",
                                    at |-> "stop_locked", arg |-> <<TRUE>>]]
    /\ ops' = ops + 1
    /\ UNCHANGED <<flags, m_session_mutex, observed, tokens, m_action_queue, account,
                   login, events, refresh_arg, wakeup_unserved>>

\* lines 184-190: both timers are stopped; if m_thread is joinable, lock
\* m_thread_stop_mutex, else return (the shutdown sequence run once more on
\* a joined thread); arg keeps what joinable() returned
destructor_call ==
    /\ pc[Main].at \in {"idle", "destroyed"}
    /\ m_token_timer' = <<>>
    /\ m_polling_timer' = FALSE
    /\ IF joinable
       THEN /\ m_thread_stop_mutex = NoThread
            /\ m_thread_stop_mutex' = Main
            /\ pc' = [pc EXCEPT ![Main] = [op |-> "~UserAccountCommunication",
                                            at |-> "stop_locked", arg |-> <<TRUE>>]]
       ELSE /\ UNCHANGED m_thread_stop_mutex
            /\ pc' = [pc EXCEPT ![Main] = [op |-> "~UserAccountCommunication",
                                            at |-> "destroyed", arg |-> <<FALSE>>]]
    /\ ops' = ops + 1
    /\ UNCHANGED <<flags, m_session_mutex, observed, tokens, m_action_queue, account,
                   login, events, refresh_arg, wakeup_unserved>>

\* lines 191-193: m_thread_stop = true; unlock; notify_all
destructor_set_stop ==
    /\ At(Main, "~UserAccountCommunication", "stop_locked")
    /\ m_thread_stop' = TRUE
    /\ m_thread_stop_mutex' = NoThread
    /\ notify_all(Main, [pc[Main] EXCEPT !.at = "join"])
    /\ UNCHANGED <<m_thread_wakeup, m_window_is_active, m_session_mutex, observed,
                   tokens, m_action_queue, account, login, events, timers,
                   wakeup_unserved, ops>>

\* line 195: m_thread.join() returns once the thread function has returned
destructor_join ==
    /\ At(Main, "~UserAccountCommunication", "join")
    /\ WorkerAt("done")
    /\ Goto(Main, "destroyed")
    /\ UNCHANGED <<flags, mutexes, observed, tokens, m_action_queue, account, login,
                   events, timers, wakeup_unserved, ops>>

----------------------------------------------------------------------------
(* do_login and login_redirect (lines 258-289). *)

\* line 281: a call of do_login has locked m_session_mutex
do_login_call(t) ==
    /\ MayStart(t)
    /\ m_session_mutex = NoThread
    /\ m_session_mutex' = t
    /\ pc' = [pc EXCEPT ![t] = [op |-> "do_login", at |-> "session", arg |-> <<>>]]
    /\ ops' = ops + 1
    /\ UNCHANGED <<flags, m_thread_stop_mutex, observed, tokens, m_action_queue,
                   account, login, events, timers, wakeup_unserved>>

\* a redirect that keeps a verifier it already holds
login_redirect_keeping ==
    \E verifier \in Verifiers :
        /\ m_code_verifier' = IF m_code_verifier # "" THEN m_code_verifier ELSE verifier
        /\ events' = Append(events, OpenPrusaAuthEvent(generate_chalenge(verifier)))

\* login_redirect (lines 258-272): a verifier is drawn and stored, and the
\* authorization URL with its challenge is queued as an event
login_redirect ==
    \E verifier \in Verifiers :
        /\ m_code_verifier' = verifier
        /\ events' = Append(events, OpenPrusaAuthEvent(generate_chalenge(verifier)))

\* a do_login that always redirects
do_login_locked_redirecting(t) ==
    /\ At(t, "do_login", "session")
    /\ login_redirect
    /\ m_session_mutex' = NoThread
    /\ Goto(t, "wakeup")
    /\ UNCHANGED <<flags, m_thread_stop_mutex, observed, tokens, m_action_queue,
                   account, init_with_code_args, url_message, timers,
                   wakeup_unserved, ops>>

\* lines 282-288: redirect when the Session is not initialized, else enqueue
\* a test with refresh; unlock; wakeup_session_thread follows
do_login_locked(t) ==
    /\ At(t, "do_login", "session")
    /\ IF ~is_initialized
       THEN /\ login_redirect
            /\ UNCHANGED m_action_queue
       ELSE /\ m_action_queue' = enqueue_test_with_refresh(m_action_queue)
            /\ UNCHANGED <<m_code_verifier, events>>
    /\ m_session_mutex' = NoThread
    /\ Goto(t, "wakeup")
    /\ UNCHANGED <<flags, m_thread_stop_mutex, observed, tokens, account,
                   init_with_code_args, url_message, timers, wakeup_unserved, ops>>

----------------------------------------------------------------------------
(* on_login_code_recieved (lines 306-314). *)

\* line 309: a delivery of the redirect payload has locked m_session_mutex
on_login_code_recieved_call(t, message) ==
    /\ MayStart(t)
    /\ m_session_mutex = NoThread
    /\ m_session_mutex' = t
    /\ pc' = [pc EXCEPT ![t] =
                [op |-> "on_login_code_recieved", at |-> "session", arg |-> message]]
    /\ ops' = ops + 1
    /\ UNCHANGED <<flags, m_thread_stop_mutex, observed, tokens, m_action_queue,
                   account, login, events, timers, wakeup_unserved>>

\* UserAccountSession::init_with_code: the exchange of the code for tokens
\* succeeds or fails; an empty code cannot succeed
init_with_code(code, verifier) ==
    \/ /\ code # <<>>
       /\ m_access_token' = "at"
       /\ m_refresh_token' = "rt"
       /\ m_shared_session_key' = "key"
       /\ m_next_token_timeout' = TokenExpiry
    \/ UNCHANGED tokens

\* lines 310-313: extract the code, hand it with the stored verifier to the
\* Session, unlock; wakeup_session_thread follows
on_login_code_recieved_locked(t) ==
    /\ At(t, "on_login_code_recieved", "session")
    /\ LET code == get_code_from_message(pc[t].arg)
       IN  /\ init_with_code(code, m_code_verifier)
           /\ init_with_code_args' = Some(<<code, m_code_verifier>>)
    /\ url_message' = Some(pc[t].arg)
    /\ m_session_mutex' = NoThread
    /\ Goto(t, "wakeup")
    /\ UNCHANGED <<flags, m_thread_stop_mutex, observed, m_action_queue, account,
                   m_code_verifier, events, timers, wakeup_unserved, ops>>

----------------------------------------------------------------------------
(* on_activate_window (lines 418-424) and on_polling_timer (lines 447-453). *)

\* line 421: lock m_thread_stop_mutex
on_activate_window_call(active) ==
    /\ MayStart(Main)
    /\ m_thread_stop_mutex = NoThread
    /\ m_thread_stop_mutex' = Main
    /\ pc' = [pc EXCEPT ![Main] =
                [op |-> "on_activate_window", at |-> "locked", arg |-> <<active>>]]
    /\ ops' = ops + 1
    /\ UNCHANGED <<flags, m_session_mutex, observed, tokens, m_action_queue, account,
                   login, events, timers, wakeup_unserved>>

\* lines 422-423: m_window_is_active = active; unlock
on_activate_window_locked ==
    /\ At(Main, "on_activate_window", "locked")
    /\ m_window_is_active' = pc[Main].arg[1]
    /\ m_thread_stop_mutex' = NoThread
    /\ Return(Main)
    /\ UNCHANGED <<m_thread_stop, m_thread_wakeup, m_session_mutex, observed, tokens,
                   m_action_queue, account, login, events, timers, wakeup_unserved, ops>>

\* a polling callback that wakes the worker whether the window is active or not
on_polling_timer_always ==
    /\ MayStart(Main)
    /\ m_polling_timer
    /\ ops' = ops + 1
    /\ pc' = [pc EXCEPT ![Main] =
                [op |-> "on_polling_timer", at |-> "wakeup", arg |-> <<>>]]
    /\ UNCHANGED <<flags, mutexes, observed, tokens, m_action_queue, account, login,
                   events, timers, wakeup_unserved>>

\* the polling timer fires: return when the window is not active (read
\* without the lock), else wakeup_session_thread
on_polling_timer ==
    /\ MayStart(Main)
    /\ m_polling_timer
    /\ ops' = ops + 1
    /\ IF ~m_window_is_active
       THEN UNCHANGED pc
       ELSE pc' = [pc EXCEPT ![Main] =
                     [op |-> "on_polling_timer", at |-> "wakeup", arg |-> <<>>]]
    /\ UNCHANGED <<flags, mutexes, observed, tokens, m_action_queue, account, login,
                   events, timers, wakeup_unserved>>

----------------------------------------------------------------------------
(* The refresh timer: set_refresh_time (lines 435-441) and on_token_timer  *)
(* (lines 443-446).  wxTimer::Stop cancels the pending firing and          *)
(* wxTimer::StartOnce schedules one; both run on the GUI thread, which     *)
(* also delivers the firing.                                               *)

\* m_token_timer->Stop()
StopTimer(pending) == <<>>
\* m_token_timer->StartOnce(miliseconds)
StartOnce(pending, miliseconds) == Append(pending, miliseconds)

\* a set_refresh_time that schedules without cancelling
set_refresh_time_unstopped(seconds) ==
    /\ MayStart(Main)
    /\ \E miliseconds \in RefreshDelays(seconds) :
          m_token_timer' = StartOnce(m_token_timer, miliseconds)
    /\ refresh_arg' = Some(seconds)
    /\ ops' = ops + 1
    /\ UNCHANGED <<pc, flags, mutexes, observed, tokens, m_action_queue, account,
                   login, events, m_polling_timer, wakeup_unserved>>

set_refresh_time(seconds) ==
    /\ MayStart(Main)
    /\ \E miliseconds \in RefreshDelays(seconds) :
          m_token_timer' = StartOnce(StopTimer(m_token_timer), miliseconds)
    /\ refresh_arg' = Some(seconds)
    /\ ops' = ops + 1
    /\ UNCHANGED <<pc, flags, mutexes, observed, tokens, m_action_queue, account,
                   login, events, m_polling_timer, wakeup_unserved>>

\* a pending firing is delivered (a one-shot timer: it is pending no more)
\* and on_token_timer calls enqueue_refresh, which locks m_session_mutex
on_token_timer ==
    /\ MayStart(Main)
    /\ m_token_timer # <<>>
    /\ m_session_mutex = NoThread
    /\ m_session_mutex' = Main
    /\ m_token_timer' = Tail(m_token_timer)
    /\ pc' = [pc EXCEPT ![Main] =
                [op |-> "on_token_timer", at |-> "session", arg |-> <<"">>]]
    /\ ops' = ops + 1
    /\ UNCHANGED <<flags, m_thread_stop_mutex, observed, tokens, m_action_queue,
                   account, login, events, m_polling_timer, refresh_arg,
                   wakeup_unserved>>

----------------------------------------------------------------------------
(* do_logout, do_clear (lines 290-304) and set_username (lines 199-217). *)

\* line 299: a call of do_logout has entered do_clear and locked m_session_mutex
do_logout_call ==
    /\ MayStart(Main)
    /\ m_session_mutex = NoThread
    /\ m_session_mutex' = Main
    /\ pc' = [pc EXCEPT ![Main] = [op |-> "do_logout", at |-> "session", arg |-> <<>>]]
    /\ ops' = ops + 1
    /\ UNCHANGED <<flags, m_thread_stop_mutex, observed, tokens, m_action_queue,
                   account, login, events, timers, wakeup_unserved>>

\* lines 300-301: m_session->clear() empties the Session's tokens; unlock
do_clear_locked ==
    /\ At(Main, "do_logout", "session")
    /\ m_access_token' = ""
    /\ m_refresh_token' = ""
    /\ m_shared_session_key' = ""
    /\ UNCHANGED m_next_token_timeout
    /\ m_session_mutex' = NoThread
    /\ Goto(Main, "set_username")
    /\ UNCHANGED <<flags, m_thread_stop_mutex, observed, m_action_queue, account,
                   login, events, timers, wakeup_unserved, ops>>

\* lines 302, 201-203: set_username({}): m_username is emptied and
\* m_session_mutex locked
do_clear_set_username ==
    /\ At(Main, "do_logout", "set_username")
    /\ m_session_mutex = NoThread
    /\ m_session_mutex' = Main
    /\ m_username' = ""
    /\ Goto(Main, "set_username_locked")
    /\ UNCHANGED <<flags, m_thread_stop_mutex, observed, tokens, m_action_queue,
                   m_remember_session, secret_store, login, events, timers,
                   wakeup_unserved, ops>>

\* lines 207-209: access + "|" + refresh + "|" + to_string(timeout)
TokenBundle == <<m_access_token, "|", m_refresh_token, "|", ToString(m_next_token_timeout)>>

\* the user names the model passes to set_username
Usernames == {"", "user"}

\* set_username(username), lines 201-203: m_username is assigned and
\* m_session_mutex locked
set_username_call(username) ==
    /\ MayStart(Main)
    /\ m_session_mutex = NoThread
    /\ m_session_mutex' = Main
    /\ m_username' = username
    /\ pc' = [pc EXCEPT ![Main] =
                [op |-> "set_username", at |-> "set_username_locked", arg |-> <<>>]]
    /\ ops' = ops + 1
    /\ UNCHANGED <<flags, m_thread_stop_mutex, observed, tokens, m_action_queue,
                   m_remember_session, secret_store, login, events, timers,
                   wakeup_unserved>>

\* set_remember_session(b), lines 221-223 and 201-203: m_remember_session is
\* assigned, then set_username(m_username) locks m_session_mutex
set_remember_session_call(b) ==
    /\ MayStart(Main)
    /\ m_session_mutex = NoThread
    /\ m_session_mutex' = Main
    /\ m_remember_session' = b
    /\ pc' = [pc EXCEPT ![Main] =
                [op |-> "set_remember_session", at |-> "set_username_locked", arg |-> <<>>]]
    /\ ops' = ops + 1
    /\ UNCHANGED <<flags, m_thread_stop_mutex, observed, tokens, m_action_queue,
                   m_username, secret_store, login, events, timers, wakeup_unserved>>

\* a set_username that saves nothing when the session is not remembered
set_username_locked_skipping ==
    /\ pc[Main].at = "set_username_locked"
    /\ secret_store' =
          IF is_secret_store_ok /\ m_remember_session
          THEN [secret_store EXCEPT !.saved =
                   Some([key |-> m_shared_session_key, value |-> TokenBundle])]
          ELSE secret_store
    /\ m_session_mutex' = NoThread
    /\ IF pc[Main].op = "do_logout" THEN Goto(Main, "stop_timer") ELSE Return(Main)
    /\ UNCHANGED <<flags, m_thread_stop_mutex, observed, tokens, m_action_queue,
                   m_username, m_remember_session, login, events, timers,
                   wakeup_unserved, ops>>

\* lines 204-216: with a secret store, save the bundle, or the empty string
\* when the session is not remembered, under the shared session key; unlock
set_username_locked ==
    /\ pc[Main].at = "set_username_locked"
    /\ secret_store' =
          IF is_secret_store_ok
          THEN [secret_store EXCEPT !.saved =
                   Some([key |-> m_shared_session_key,
                         value |-> IF m_remember_session THEN TokenBundle ELSE <<>>])]
          ELSE secret_store
    /\ m_session_mutex' = NoThread
    /\ IF pc[Main].op = "do_logout" THEN Goto(Main, "stop_timer") ELSE Return(Main)
    /\ UNCHANGED <<flags, m_thread_stop_mutex, observed, tokens, m_action_queue,
                   m_username, m_remember_session, login, events, timers,
                   wakeup_unserved, ops>>

\* a logout that stops the polling timer along with the refresh timer
do_logout_finish_stopping ==
    /\ At(Main, "do_logout", "stop_timer")
    /\ m_token_timer' = StopTimer(m_token_timer)
    /\ m_polling_timer' = FALSE
    /\ events' = Append(events, LoggedOutEvent)
    /\ Return(Main)
    /\ UNCHANGED <<flags, mutexes, observed, tokens, m_action_queue, account, login,
                   refresh_arg, wakeup_unserved, ops>>

\* lines 303 and 293: the refresh timer is stopped and the logged-out event queued
do_logout_finish ==
    /\ At(Main, "do_logout", "stop_timer")
    /\ m_token_timer' = StopTimer(m_token_timer)
    /\ events' = Append(events, LoggedOutEvent)
    /\ Return(Main)
    /\ UNCHANGED <<flags, mutexes, observed, tokens, m_action_queue, account, login,
                   m_polling_timer, refresh_arg, wakeup_unserved, ops>>

----------------------------------------------------------------------------
(* The specifications. *)

\* "code=A": the redirect payload delivered
MainMessages == {<<99, 111, 100, 101, 61, 65>>}
\* the token lifetime handed to set_refresh_time: one hour
MainSeconds == {3600}

\* the steps of a call in progress on thread t
ThreadProgress(t) ==
    \/ wakeup_lock(t)
    \/ wakeup_set(t)
    \/ enqueue_locked(t)
    \/ do_login_locked(t)
    \/ on_login_code_recieved_locked(t)

\* the steps of a call in progress that only the GUI thread makes
MainProgress ==
    \/ on_activate_window_locked
    \/ do_clear_locked
    \/ do_clear_set_username
    \/ set_username_locked
    \/ do_logout_finish
    \/ destructor_set_stop
    \/ destructor_join

\* a call any thread may make
ThreadCall(t) ==
    \/ \E method \in EnqueueMethods : \E arg \in ArgsOf(method) : enqueue_call(t, method, arg)
    \/ do_login_call(t)
    \/ \E message \in MainMessages : on_login_code_recieved_call(t, message)

\* the calls and callbacks of the GUI thread
MainCall ==
    \/ \E active \in BOOLEAN : on_activate_window_call(active)
    \/ on_polling_timer
    \/ \E seconds \in MainSeconds : set_refresh_time(seconds)
    \/ on_token_timer
    \/ do_logout_call
    \/ destructor_call

Next ==
    \/ WorkerProgress
    \/ wait_timeout
    \/ \E t \in CallerThreads : ThreadProgress(t)
    \/ MainProgress
    \/ Budget(MaxOps) /\ \E t \in CallerThreads : ThreadCall(t)
    \/ Budget(MaxOps) /\ MainCall

Spec == Init /\ [][Next]_vars

\* The scheduler runs every thread that can take a step of its code: the
\* worker, and each call in progress.  No fairness is assumed of the clock
\* (wait_timeout) nor of the callers starting calls.
FairSpec ==
    /\ Spec
    /\ WF_vars(WorkerProgress)
    /\ \A t \in CallerThreads : WF_vars(ThreadProgress(t))
    /\ WF_vars(MainProgress)

----------------------------------------------------------------------------
(* The redirect payloads and token lifetimes the pure computations are     *)
(* checked on, and the specifications that deliver them.                   *)

\* what a payload is built from: "code=", 'A', '7', '&', 'c'
PayloadTokens == {CodeMarker, <<65>>, <<55>>, <<38>>, <<99>>}

\* the payloads of at most n tokens
RECURSIVE Payloads(_)
Payloads(n) ==
    IF n = 0 THEN {<<>>}
    ELSE LET shorter == Payloads(n - 1)
         IN  shorter \cup {p \o tok : p \in shorter, tok \in PayloadTokens}

CodeMessages == Payloads(MaxTokens)

\* one delivery of a redirect payload on the GUI thread, start to end
CodeNext ==
    \/ /\ url_message = None
       /\ pc[Main].at = "idle"
       /\ \E message \in CodeMessages : on_login_code_recieved_call(Main, message)
    \/ on_login_code_recieved_locked(Main)
    \/ wakeup_lock(Main)
    \/ wakeup_set(Main)

CodeSpec == InitFrom({<<-1, -5>>}) /\ [][CodeNext]_vars

\* token lifetimes in seconds: around the floor, around the 32-bit range of
\* seconds * 1000, and values a narrowed 64-bit remaining time can give
RefreshSeconds ==
    {s * 1000 : s \in -20 .. 20}
        \cup {10, 66, 67, 126, 127, 2147483, 2147484, 2147550, 2147551, 2200000,
              4294968, -2147417, -2147418, 2147483647, -2147483647 - 1}

\* remaining times at startup: expired, 1000 s, 2^32 + 10 s, 2^32 - 5 s,
\* 2200000 s
RefreshRemain == {<<-1, -5>>, <<0, 1000>>, <<1, 10>>, <<0, -5>>, <<0, 2200000>>}

RefreshNext ==
    \/ Budget(MaxOps) /\ \E seconds \in RefreshSeconds : set_refresh_time(seconds)
    \/ Budget(MaxOps) /\ on_token_timer
    \/ enqueue_locked(Main)
    \/ wakeup_lock(Main)
    \/ wakeup_set(Main)

RefreshSpec == InitFrom(RefreshRemain) /\ [][RefreshNext]_vars

----------------------------------------------------------------------------
(* The claims. *)

\* C1: no action is processed after a stop request: once m_thread_stop is
\* true the worker never begins a process_action_queue call (it does not
\* take the session lock of line 411 for the call of line 412).
C1_NoDrainAfterStop ==
    [][(~WorkerAt("process") /\ WorkerAt("process")') => ~m_thread_stop]_vars

\* C2: the worker reaches the drain only in an iteration in which it read
\* stop = false and (window active or wakeup requested); an iteration that
\* read window inactive and no wakeup is back at the wait, not draining.
C2_DrainIsGated ==
    /\ pc[Worker].at \in {"clear", "lock_session", "process"} =>
          /\ observed.stop = Some(FALSE)
          /\ (observed.active = Some(TRUE) \/ observed.wakeup = Some(TRUE))
    /\ (observed.active = Some(FALSE) /\ observed.wakeup = Some(FALSE)) =>
          WorkerAt("wait")

\* C2 witness: the wait timed out with the window inactive and no wakeup,
\* and the worker went back to waiting
C2_SkippedDrain ==
    /\ WorkerAt("wait")
    /\ observed.active = Some(FALSE)
    /\ observed.wakeup = Some(FALSE)
    /\ ~m_window_is_active
    /\ ~m_thread_wakeup

\* C3: every wakeup_session_thread call is followed by the start of a drain,
\* unless stop is set.
C3_WakeupLeadsToDrain == wakeup_unserved ~> (~wakeup_unserved \/ m_thread_stop)

\* C3 witness: a drain started on a wakeup read while the window was inactive
C3_DrainOnWakeupInactive ==
    /\ WorkerAt("process")
    /\ observed.active = Some(FALSE)
    /\ observed.wakeup = Some(TRUE)
    /\ ~wakeup_unserved

\* C4: once stop is true the worker leaves its loop and the join of the
\* destructor returns, and a worker that has read stop = true is done.
C4_StopLeadsToExit ==
    /\ m_thread_stop ~> (WorkerAt("done") /\ pc[Main].at = "destroyed")
    /\ [](observed.stop = Some(TRUE) => WorkerAt("done"))

\* C4 witness: the destructor has returned although a wakeup was requested
\* after the worker's last clearing of the flag
C4_ExitedWithWakeup ==
    /\ pc[Main].at = "destroyed"
    /\ WorkerAt("done")
    /\ m_thread_wakeup

\* the character classes of the claims, read off the ASCII table
IsAlnum(c) == c \in (48 .. 57) \cup (65 .. 90) \cup (97 .. 122)

\* the payload has a last "code=" at 0-based position p
LastMarkerAt(message, p) ==
    /\ p \in Occurrences(message, CodeMarker)
    /\ \A q \in Occurrences(message, CodeMarker) : q <= p

\* `code` is the maximal alphanumeric run of `message` from 0-based index start
MaximalRunFrom(message, start, code) ==
    /\ start + Len(code) <= Len(message)
    /\ code = SubSeq(message, start + 1, start + Len(code))
    /\ \A i \in 1 .. Len(code) : IsAlnum(code[i])
    /\ start + Len(code) = Len(message) \/ ~IsAlnum(message[start + Len(code) + 1])

\* the payload delivered and the code extracted from it
Delivered == url_message # None /\ init_with_code_args # None
DeliveredMessage == url_message[1]
ExtractedCode == init_with_code_args[1][1]

\* C5: the code is empty when the payload has no "code=" marker, and when
\* the marker ends the payload or is followed by a non-alphanumeric character.
C5_EmptyCodeWithoutMarker ==
    Delivered =>
        /\ Occurrences(DeliveredMessage, CodeMarker) = {} => ExtractedCode = <<>>
        /\ \A p \in 0 .. Len(DeliveredMessage) :
              (/\ LastMarkerAt(DeliveredMessage, p)
               /\ \/ p + 5 = Len(DeliveredMessage)
                  \/ ~IsAlnum(DeliveredMessage[p + 6]))
                 => ExtractedCode = <<>>

\* C6: with a marker in the payload the code is the maximal alphanumeric run
\* right after the last marker.
C6_CodeIsRunAfterLastMarker ==
    (Delivered /\ Occurrences(DeliveredMessage, CodeMarker) # {}) =>
        \E p \in 0 .. Len(DeliveredMessage) :
            /\ LastMarkerAt(DeliveredMessage, p)
            /\ MaximalRunFrom(DeliveredMessage, p + 5, ExtractedCode)

\* C6 witness: two markers, and a code that a non-alphanumeric character ends
C6_CodeAfterSecondMarker ==
    /\ Delivered
    /\ Cardinality(Occurrences(DeliveredMessage, CodeMarker)) = 2
    /\ ExtractedCode # <<>>
    /\ Len(ExtractedCode) + 10 < Len(DeliveredMessage)

\* the kind and payload the claim gives each enqueue method
MatchingAction(method, arg) ==
    CASE method = "enqueue_connect_printer_models_action" ->
            [kind |-> "CONNECT_PRINTER_MODELS", payload |-> ""]
      [] method = "enqueue_connect_status_action" ->
            [kind |-> "CONNECT_STATUS", payload |-> ""]
      [] method = "enqueue_test_connection" -> [kind |-> "TEST_WITH_REFRESH", payload |-> ""]
      [] method = "enqueue_avatar_action" -> [kind |-> "AVATAR", payload |-> arg]
      [] method = "enqueue_printer_data_action" ->
            [kind |-> "CONNECT_DATA_FROM_UUID", payload |-> arg]
      [] OTHER -> [kind |-> "REFRESH", payload |-> ""]

\* thread t leaves position `at` in this step
Leaves(t, at) == pc[t].at = at /\ pc'[t].at # at

\* thread t ends wakeup_session_thread's critical section with the flag set
WakeupRequested(t) == Leaves(t, "wakeup_locked") => m_thread_wakeup'

\* C7: an enqueue method, holding the session lock, returns with the queue
\* and the wakeup flag unchanged when the Session is not initialized, and
\* else appends the one matching action and goes on to request a wakeup.
C7_EnqueueGuarded ==
    [][\A t \in CallerThreads :
          /\ (pc[t].op \in EnqueueMethods /\ Leaves(t, "session")) =>
                /\ m_session_mutex = t
                /\ IF ~is_initialized
                   THEN /\ m_action_queue' = m_action_queue
                        /\ m_thread_wakeup' = m_thread_wakeup
                        /\ pc'[t].at = "idle"
                   ELSE /\ m_action_queue' =
                              Append(m_action_queue, MatchingAction(pc[t].op, pc[t].arg[1]))
                        /\ pc'[t].at = "wakeup"
          /\ (pc[t].op \in EnqueueMethods => WakeupRequested(t))]_vars

\* C7 witness: enqueue_avatar_action has appended its action and is about to
\* wake the worker
C7_AvatarEnqueued ==
    \E t \in CallerThreads :
        /\ At(t, "enqueue_avatar_action", "wakeup")
        /\ m_action_queue # <<>>
        /\ m_action_queue[Len(m_action_queue)] = [kind |-> "AVATAR", payload |-> "url"]

\* C8: do_login, holding the session lock, queues one authorization-URL
\* event for a newly stored verifier and enqueues nothing when the Session
\* is not initialized, and else enqueues one test-with-refresh action and
\* queues no event; it then releases the lock and requests a wakeup.
C8_LoginRedirectsOrTests ==
    [][\A t \in CallerThreads :
          /\ (pc[t].op = "do_login" /\ Leaves(t, "session")) =>
                /\ m_session_mutex = t
                /\ IF ~is_initialized
                   THEN /\ m_code_verifier' # ""
                        /\ events' = Append(events,
                              [type |-> "EVT_OPEN_PRUSAAUTH",
                               challenge |-> generate_chalenge(m_code_verifier')])
                        /\ m_action_queue' = m_action_queue
                   ELSE /\ m_action_queue' =
                              Append(m_action_queue,
                                     [kind |-> "TEST_WITH_REFRESH", payload |-> ""])
                        /\ events' = events
                /\ m_session_mutex' = NoThread
                /\ pc'[t].at = "wakeup"
          /\ (pc[t].op = "do_login" => WakeupRequested(t))]_vars

\* C8 witness: do_login has redirected and is about to wake the worker
C8_RedirectedLogin ==
    \E t \in CallerThreads :
        /\ At(t, "do_login", "wakeup")
        /\ m_code_verifier # ""
        /\ events # <<>>
        /\ events[Len(events)].type = "EVT_OPEN_PRUSAAUTH"
        /\ m_action_queue = <<>>

\* max(seconds * 1000 - 66666, 60000) in exact arithmetic, as limbs
ExactDelayLimbs(seconds) ==
    LET exact == ExactRefreshLimbs(seconds)
    IN  IF exact[1] > 0 \/ (exact[1] = 0 /\ exact[2] >= 60000)
        THEN exact ELSE <<0, 60000>>

\* C9: the refresh timer is scheduled with max(seconds * 1000 - 66666, 60000)
\* ms in exact arithmetic, never below 60000 ms.
C9_DelayIsExact ==
    (refresh_arg # None /\ m_token_timer # <<>>) =>
        /\ Limbs(m_token_timer[Len(m_token_timer)]) = ExactDelayLimbs(refresh_arg[1])
        /\ m_token_timer[Len(m_token_timer)] >= 60000

\* the refresh timer is delivered to the GUI thread in this step
TimerDelivered == pc[Main].op # "on_token_timer" /\ pc'[Main].op = "on_token_timer"

\* C10: at most one firing of the refresh timer is pending, and a delivery
\* takes the one pending firing, leaving none.
C10_OnePendingFiring ==
    /\ [](Len(m_token_timer) <= 1)
    /\ [][TimerDelivered => (m_token_timer # <<>> /\ m_token_timer' = <<>>)]_vars

\* C10 witness: set_refresh_time(3600) has scheduled a firing, and that one
\* firing has been delivered, leaving none pending
C10_DeliveredAfterReset ==
    /\ At(Main, "on_token_timer", "session")
    /\ refresh_arg = Some(3600)
    /\ m_token_timer = <<>>

\* the GUI thread enters do_logout, or takes a step of it, in this step
LogoutStep ==
    /\ pc'[Main] # pc[Main]
    /\ pc[Main].op = "do_logout" \/ pc'[Main].op = "do_logout"

\* C11: do_logout empties the Session's tokens and the username, stops the
\* refresh timer and queues exactly one logged-out event; no step of it
\* touches the stop flag, the worker thread or the polling timer.
C11_LogoutKeepsWorker ==
    [][LogoutStep =>
          /\ UNCHANGED <<m_thread_stop, m_polling_timer>>
          /\ pc'[Worker] = pc[Worker]
          /\ Leaves(Main, "session") =>
                (m_access_token' = "" /\ m_refresh_token' = "" /\ m_shared_session_key' = "")
          /\ Leaves(Main, "set_username") => m_username' = ""
          /\ IF pc[Main].op = "do_logout" /\ pc'[Main].op # "do_logout"
             THEN /\ m_username = ""
                  /\ m_token_timer' = <<>>
                  /\ events' = Append(events, [type |-> "EVT_UA_LOGGEDOUT", challenge |-> <<>>])
                  /\ pc'[Main] = Idle
             ELSE events' = events]_vars

\* C11 witness: after a logout the worker is still in its loop and a
\* do_login has started the redirect flow
C11_LoginAfterLogout ==
    /\ Len(events) = 2
    /\ events[1].type = "EVT_UA_LOGGEDOUT"
    /\ events[2].type = "EVT_OPEN_PRUSAAUTH"
    /\ ~WorkerAt("done")
    /\ ~m_thread_stop
    /\ m_polling_timer

----------------------------------------------------------------------------
(* Persistence: set_username, set_remember_session and do_logout on the    *)
(* GUI thread, while the caller thread delivers a redirect payload that    *)
(* may give the Session new tokens.                                        *)

\* calls and callbacks started in one run of the persistence specification
MaxPersistOps == 3

PersistNext ==
    \/ Budget(MaxPersistOps) /\ \E username \in Usernames : set_username_call(username)
    \/ Budget(MaxPersistOps) /\ \E b \in BOOLEAN : set_remember_session_call(b)
    \/ set_username_locked
    \/ Budget(MaxPersistOps) /\ do_logout_call
    \/ do_clear_locked
    \/ do_clear_set_username
    \/ do_logout_finish
    \/ Budget(MaxPersistOps) /\
          \E message \in MainMessages : on_login_code_recieved_call(Caller, message)
    \/ on_login_code_recieved_locked(Caller)
    \/ wakeup_lock(Caller)
    \/ wakeup_set(Caller)

PersistSpec == Init /\ [][PersistNext]_vars

\* the pipe-delimited bundle of the Session's tokens in this state
BundleNow ==
    <<m_access_token, "|", m_refresh_token, "|", ToString(m_next_token_timeout)>>

\* C12: every write to the token cache is the one of set_username, made with
\* the session lock held under the shared session key: the bundle of the
\* tokens at that moment when the session is remembered, the empty value
\* when it is not; without a secret store nothing is written.
C12_PersistFollowsRemember ==
    /\ [][Leaves(Main, "set_username_locked") =>
             /\ m_session_mutex = Main
             /\ IF secret_store.ok
                THEN secret_store'.saved =
                        Some([key |-> m_shared_session_key,
                              value |-> IF m_remember_session THEN BundleNow ELSE <<>>])
                ELSE secret_store' = secret_store]_vars
    /\ [][secret_store' # secret_store => Leaves(Main, "set_username_locked")]_vars

\* C12 witness: set_username("") with the session not remembered has written
\* the empty value over a bundle under the key of the tokens still held
C12_EmptyValueWritten ==
    /\ pc[Main].at = "idle"
    /\ m_username = ""
    /\ ~m_remember_session
    /\ m_refresh_token # ""
    /\ secret_store.saved = Some([key |-> "key", value |-> <<>>])

----------------------------------------------------------------------------
(* The end of the constructor (lines 173-180): the Session is built from   *)
(* the loaded tokens, the worker thread started, and do_login called when  *)
(* a refresh token was loaded.  The worker runs while the constructor      *)
(* finishes.                                                               *)

\* the object after init_session_thread() at line 175
Started(store_ok, stored, remain, delay) ==
    /\ pc = [t \in {Worker, Main, Caller} |->
                CASE t = Worker -> [op |-> "session_thread", at |-> "wait", arg |-> <<>>]
                  [] t = Main -> [op |-> "UserAccountCommunication", at |-> "has_token",
                                  arg |-> <<>>]
                  [] OTHER -> Idle]
    /\ m_thread_stop = FALSE
    /\ m_thread_wakeup = FALSE
    /\ m_window_is_active = TRUE
    /\ m_thread_stop_mutex = NoThread
    /\ m_session_mutex = NoThread
    /\ observed = Unread
    /\ m_access_token = IF RemainPositive(remain) THEN stored.access ELSE ""
    /\ m_refresh_token = stored.refresh
    /\ m_shared_session_key = IF stored.refresh # "" THEN "key" ELSE ""
    /\ m_next_token_timeout = 0
    /\ m_action_queue = <<>>
    /\ m_code_verifier = ""
    /\ m_username = ""
    /\ m_remember_session = TRUE
    /\ secret_store = [ok |-> store_ok, saved |-> None]
    /\ events = <<>>
    /\ m_token_timer = IF RemainPositive(remain) THEN <<delay>> ELSE <<>>
    /\ m_polling_timer = TRUE
    /\ init_with_code_args = None
    /\ url_message = None
    /\ refresh_arg = IF RemainPositive(remain) THEN Some(NarrowToInt(remain)) ELSE None
    /\ wakeup_unserved = FALSE
    /\ ops = 0

StartedFrom(remains) ==
    \E store_ok \in BOOLEAN, stored \in StoredTokens, remain \in remains :
        /\ (~store_ok => (stored.refresh = "" /\ ~RemainPositive(remain)))
        /\ \E delay \in RefreshDelays(NarrowToInt(remain)) :
              Started(store_ok, stored, remain, delay)

\* a constructor that logs in only with an access token
constructor_has_access_token ==
    /\ At(Main, "UserAccountCommunication", "has_token")
    /\ IF m_access_token # ""
       THEN /\ m_session_mutex = NoThread
            /\ m_session_mutex' = Main
            /\ pc' = [pc EXCEPT ![Main] = [op |-> "do_login", at |-> "session", arg |-> <<>>]]
       ELSE /\ Return(Main)
            /\ UNCHANGED m_session_mutex
    /\ UNCHANGED <<flags, m_thread_stop_mutex, observed, tokens, m_action_queue, account,
                   login, events, timers, wakeup_unserved, ops>>

\* lines 173, 177-179 and 281: if (has_token) do_login(), which locks
\* m_session_mutex; else the constructor returns
constructor_has_token ==
    /\ At(Main, "UserAccountCommunication", "has_token")
    /\ IF m_refresh_token # ""
       THEN /\ m_session_mutex = NoThread
            /\ m_session_mutex' = Main
            /\ pc' = [pc EXCEPT ![Main] = [op |-> "do_login", at |-> "session", arg |-> <<>>]]
       ELSE /\ Return(Main)
            /\ UNCHANGED m_session_mutex
    /\ UNCHANGED <<flags, m_thread_stop_mutex, observed, tokens, m_action_queue, account,
                   login, events, timers, wakeup_unserved, ops>>

\* the window is active throughout (nothing calls on_activate_window yet), so
\* the worker never evaluates the right operand of line 406
CtorNext ==
    \/ constructor_has_token
    \/ do_login_locked(Main)
    \/ wakeup_lock(Main)
    \/ wakeup_set(Main)
    \/ wait_lock
    \/ wait_pred
    \/ wait_timeout
    \/ check_stop
    \/ gate_window
    \/ clear_wakeup
    \/ worker_lock_session
    \/ process_action_queue

CtorSpec == StartedFrom(RefreshRemain) /\ [][CtorNext]_vars

\* C13: with a refresh token loaded the constructor enqueues exactly one
\* test-with-refresh action and requests a wakeup, also when the access token
\* was discarded; without one it enqueues nothing; it never queues an
\* authorization-URL event.
C13_ResumeEnqueuesOneTest ==
    /\ [](\A i \in 1 .. Len(events) : events[i].type # "EVT_OPEN_PRUSAAUTH")
    /\ [](m_refresh_token = "" => (m_action_queue = <<>> /\ ~m_thread_wakeup))
    /\ [][(pc[Main].op = "UserAccountCommunication" /\ pc'[Main] # pc[Main]) =>
             IF m_refresh_token # ""
             THEN pc'[Main] = [op |-> "do_login", at |-> "session", arg |-> <<>>]
             ELSE pc'[Main] = Idle]_vars
    /\ [][m_action_queue' # m_action_queue =>
             \/ WorkerAt("process") /\ m_action_queue' = Tail(m_action_queue)
             \/ /\ At(Main, "do_login", "session")
                /\ pc'[Main].at = "wakeup"
                /\ m_action_queue' =
                      Append(m_action_queue, [kind |-> "TEST_WITH_REFRESH", payload |-> ""])]_vars
    /\ [][Leaves(Main, "wakeup_locked") => (m_thread_wakeup' /\ pc'[Main] = Idle)]_vars
    /\ [][pc[Main] = Idle => pc'[Main] = Idle]_vars

\* C13 witness: the constructor has returned after discarding the access
\* token: the refresh token is kept, one test-with-refresh action is queued
\* and the wakeup requested
C13_ResumedWithoutAccessToken ==
    /\ pc[Main] = Idle
    /\ m_access_token = ""
    /\ m_refresh_token = "rt"
    /\ m_action_queue = <<[kind |-> "TEST_WITH_REFRESH", payload |-> ""]>>
    /\ m_thread_wakeup
    /\ events = <<>>

Steps(t) == pc'[t] # pc[t]

\* the step reads a control flag into the worker's locals or changes a flag
AccessesControlState ==
    \/ flags' # flags
    \/ \E f \in DOMAIN observed : observed'[f] # observed[f] /\ observed'[f] # None

\* C15: every step that reads or writes m_thread_stop, m_thread_wakeup or
\* m_window_is_active is taken by a thread holding m_thread_stop_mutex.
C15_ControlStateLocked ==
    [][\A t \in DOMAIN pc : (Steps(t) /\ AccessesControlState) => m_thread_stop_mutex = t]_vars

\* thread t waits: for m_thread_stop_mutex, for the condition variable or
\* for the worker to exit (Control), or for m_session_mutex (Session)
WaitsForControl(t) == pc[t].at \in {"wait", "wake", "blocked", "wakeup", "join"}
WaitsForSession(t) == pc[t].at \in {"lock_session", "set_username"}

\* C16: no thread owns m_session_mutex and m_thread_stop_mutex at once, and
\* a thread that waits for one of them, or for another thread, owns neither,
\* so no cycle of lock waits can form.
C16_LocksNeverNested ==
    \A t \in DOMAIN pc :
        /\ ~(m_session_mutex = t /\ m_thread_stop_mutex = t)
        /\ (WaitsForControl(t) \/ WaitsForSession(t) \/ pc[t].at = "idle") =>
               (m_session_mutex # t /\ m_thread_stop_mutex # t)

\* C16 witness: both locks are held, by different threads: the worker drains
\* under the session lock while a caller is inside wakeup_session_thread
C16_BothLocksHeld ==
    /\ WorkerAt("process")
    /\ m_session_mutex = Worker
    /\ m_thread_stop_mutex = Caller
    /\ pc[Caller].at = "wakeup_locked"

\* a caller holding the session lock appends one action at the tail
EnqueuedAtTail ==
    /\ Len(m_action_queue') = Len(m_action_queue) + 1
    /\ SubSeq(m_action_queue', 1, Len(m_action_queue)) = m_action_queue
    /\ \E t \in CallerThreads :
           /\ m_session_mutex = t
           /\ Leaves(t, "session")
           /\ pc'[t].at = "wakeup"

\* the worker, holding the session lock in its drain, takes the oldest
\* action off the queue
OldestProcessed ==
    /\ WorkerAt("process")
    /\ m_session_mutex = Worker
    /\ m_action_queue # <<>>
    /\ m_action_queue' = Tail(m_action_queue)

\* C17: the queue changes only by a caller under the session lock appending
\* one action at the tail (after which it requests a wakeup), or by the
\* draining worker taking off the head; a drain ends only with the queue
\* empty; and once the wakeup has been signalled the pending actions are
\* eventually drained unless stop is set.
C17_DrainIsFifoAndComplete ==
    /\ [][m_action_queue' # m_action_queue => (EnqueuedAtTail \/ OldestProcessed)]_vars
    /\ [][Leaves(Worker, "process") => (m_action_queue = <<>> /\ m_action_queue' = <<>>)]_vars
    /\ (m_action_queue # <<>> /\ m_thread_wakeup) ~> (m_action_queue = <<>> \/ m_thread_stop)

\* C17 witness: two callers have enqueued one after the other, and the worker
\* has processed the first caller's action and holds the second as the head
C17_SecondCallersActionNext ==
    /\ WorkerAt("process")
    /\ m_session_mutex = Worker
    /\ ops = 2
    /\ Len(m_action_queue) = 1
    /\ m_action_queue[1].kind = "AVATAR"
    /\ pc[Main].op = "enqueue_printer_data_action"
    /\ pc[Caller].op = "enqueue_avatar_action"

\* a step of the polling callback: the firing itself, or a step of the
\* wakeup_session_thread call it makes
PollingStep ==
    \/ on_polling_timer
    \/ (pc[Main].op = "on_polling_timer" /\ pc'[Main] # pc[Main])

\* C18: a firing of the polling timer with the window active goes on to
\* wakeup_session_thread, which sets m_thread_wakeup and notifies the worker;
\* with the window inactive it returns at once; no step of the callback
\* changes the action queue, the tokens, m_thread_stop, m_window_is_active,
\* the refresh timer or the polling timer, and none queues an event.
C18_PollingOnlyNudges ==
    /\ [][PollingStep =>
             UNCHANGED <<m_action_queue, tokens, m_thread_stop, m_window_is_active,
                         m_token_timer, m_polling_timer, events, account, login>>]_vars
    /\ [][on_polling_timer =>
             IF m_window_is_active
             THEN /\ pc'[Main].op = "on_polling_timer"
                  /\ pc'[Main].at = "wakeup"
             ELSE /\ pc' = pc
                  /\ UNCHANGED <<flags, mutexes>>]_vars
    /\ [][(pc[Main].op = "on_polling_timer" /\ Leaves(Main, "wakeup_locked")) =>
             /\ m_thread_wakeup'
             /\ WorkerAt("blocked") => pc'[Worker].at = "wake"
             /\ pc'[Main] = Idle]_vars

\* C18 witness: the timer has fired with the window active and the callback
\* is inside wakeup_session_thread, about to set the flag
C18_PollingWakesWorker ==
    /\ At(Main, "on_polling_timer", "wakeup_locked")
    /\ m_window_is_active
    /\ ~m_thread_wakeup
    /\ WorkerAt("blocked")

\* C19: once on_login_code_recieved has handed the verifier to the Session,
\* and once a logout has completed, m_code_verifier is empty; and the value
\* saved in the secret store is never built from the verifier.
C19_VerifierConsumed ==
    /\ [][\A t \in CallerThreads :
             (pc[t].op = "on_login_code_recieved" /\ Leaves(t, "session")) =>
                 m_code_verifier' = ""]_vars
    /\ [][(pc[Main].op = "do_logout" /\ pc'[Main] = Idle) => m_code_verifier' = ""]_vars
    /\ [][secret_store' # secret_store =>
             \A i \in DOMAIN secret_store'.saved[1].value :
                 secret_store'.saved[1].value[i] \notin Verifiers]_vars

-----------------------------------------------------------------------------
(* The login round trip: do_login and on_login_code_recieved, called from  *)
(* either thread, without the other operations.                            *)

\* the number of calls of a login round trip: two redirects and a code
MaxLoginOps == 3

LoginNext ==
    \/ Budget(MaxLoginOps) /\ \E t \in CallerThreads : do_login_call(t)
    \/ Budget(MaxLoginOps) /\ \E t \in CallerThreads : \E message \in MainMessages :
           on_login_code_recieved_call(t, message)
    \/ \E t \in CallerThreads : do_login_locked(t)
    \/ \E t \in CallerThreads : on_login_code_recieved_locked(t)
    \/ \E t \in CallerThreads : wakeup_lock(t)
    \/ \E t \in CallerThreads : wakeup_set(t)

LoginSpec == Init /\ [][LoginNext]_vars

\* the verifier behind the challenge of the last authorization URL queued,
\* empty when none was queued
LastRedirectVerifier ==
    LET redirects == {i \in 1 .. Len(events) : events[i].type = "EVT_OPEN_PRUSAAUTH"}
    IN  IF redirects = {} THEN ""
        ELSE events[CHOOSE i \in redirects : \A j \in redirects : j <= i].challenge[2]

\* C20: the verifier on_login_code_recieved hands to the Session is the one
\* of the most recent redirect, the empty one when there was no redirect,
\* and it is the member's current value.
C20_LatestVerifierPassed ==
    /\ [](m_code_verifier = LastRedirectVerifier)
    /\ [][\A t \in CallerThreads :
             (pc[t].op = "on_login_code_recieved" /\ Leaves(t, "session")) =>
                 /\ init_with_code_args'[1][2] = LastRedirectVerifier
                 /\ init_with_code_args'[1][1] = get_code_from_message(pc[t].arg)]_vars

\* C20 witness: two redirects drew different verifiers before any code
\* arrived, and the code was exchanged with the second one
C20_SecondVerifierUsed ==
    /\ Len(events) = 2
    /\ events[1] = OpenPrusaAuthEvent(generate_chalenge("verifier1"))
    /\ events[2] = OpenPrusaAuthEvent(generate_chalenge("verifier2"))
    /\ init_with_code_args # None
    /\ init_with_code_args[1][2] = "verifier2"
    /\ ops = 3

-----------------------------------------------------------------------------
(* Logout and the refresh path: do_logout, set_refresh_time, the refresh   *)
(* timer's firing, enqueue_refresh and a code receipt that initializes the *)
(* Session again, without the other operations.                            *)

\* the number of calls: a logout, a re-arming of the timer and a refresh
MaxLogoutOps == 3

LogoutNext ==
    \/ Budget(MaxLogoutOps) /\ do_logout_call
    \/ Budget(MaxLogoutOps) /\ \E seconds \in MainSeconds : set_refresh_time(seconds)
    \/ Budget(MaxLogoutOps) /\ on_token_timer
    \/ Budget(MaxLogoutOps) /\ \E t \in CallerThreads : enqueue_call(t, "enqueue_refresh", "")
    \/ Budget(MaxLogoutOps) /\ \E message \in MainMessages :
           on_login_code_recieved_call(Caller, message)
    \/ do_clear_locked
    \/ do_clear_set_username
    \/ set_username_locked
    \/ do_logout_finish
    \/ \E t \in CallerThreads : enqueue_locked(t)
    \/ on_login_code_recieved_locked(Caller)
    \/ \E t \in CallerThreads : wakeup_lock(t)
    \/ \E t \in CallerThreads : wakeup_set(t)

LogoutSpec == Init /\ [][LogoutNext]_vars

\* thread t is in enqueue_refresh, called directly or by on_token_timer, and
\* leaves its critical section
RefreshAttempt(t) ==
    /\ pc[t].op \in {"enqueue_refresh", "on_token_timer"}
    /\ Leaves(t, "session")

\* the step appends a refresh action to the queue
RefreshEnqueued ==
    /\ Len(m_action_queue') = Len(m_action_queue) + 1
    /\ m_action_queue'[Len(m_action_queue')].kind = "REFRESH"

\* C21: the Session clear of a logout leaves the Session uninitialized and
\* the logout returns with the refresh timer stopped; a stopped timer does
\* not fire; and while the Session is uninitialized no step appends a
\* refresh action: a refresh attempt then returns without changing the
\* queue or the control flags and without notifying the worker.
C21_NoRefreshWhileLoggedOut ==
    /\ [][(pc[Main].op = "do_logout" /\ Leaves(Main, "session")) => ~is_initialized']_vars
    /\ [][(pc[Main].op = "do_logout" /\ pc'[Main] = Idle) => m_token_timer' = <<>>]_vars
    /\ [][(pc[Main] = Idle /\ pc'[Main].op = "on_token_timer") => m_token_timer # <<>>]_vars
    /\ [][~is_initialized => ~RefreshEnqueued]_vars
    /\ [][\A t \in CallerThreads :
             (RefreshAttempt(t) /\ ~is_initialized) =>
                 /\ pc'[t] = Idle
                 /\ pc'[Worker] = pc[Worker]
                 /\ UNCHANGED <<m_action_queue, flags, m_thread_stop_mutex>>]_vars

\* C21 witness: the logout has completed, a refresh lifetime set afterwards
\* has armed the timer again, and its firing is inside enqueue_refresh with
\* the Session still uninitialized
C21_LateFiringAtGuard ==
    /\ At(Main, "on_token_timer", "session")
    /\ ~is_initialized
    /\ Len(events) > 0
    /\ events[Len(events)] = LoggedOutEvent
    /\ ops = 3

=============================================================================
